---- MODULE Spec2Model ----
(***************************************************************************)
(* Income-to-goal allocation of the DhanX backend: one user, one payment   *)
(* connection name, its snapshot file, the user's goals, and the HTTP      *)
(* requests (Create, Disconnect, Sync) with the background tasks they      *)
(* enqueue.  The requests in flight form a bag of records, each holding a  *)
(* position and the locals of its handler or task; a handler or task step  *)
(* that ends in a database commit is one action.  All snapshot records are *)
(* credits (debits only feed the spending e-mails).  Timestamps, the       *)
(* clock and "today" are on one integer scale.  Money is integral; where   *)
(* the code rounds a float with int(), the model divides integers.         *)
(***************************************************************************)
EXTENDS Integers, Sequences, FiniteSets, Bags, TLC

\* ------------------------------------------------------------- bounds ----
MaxTxns == 2
MaxTime == 1
MaxRequests == 3
MaxPlanLen == 5
MaxLLMRequests == 3
MaxLLMTxns == 3
MaxClientRequests == 2
MaxUserRequests == 2
MaxUserTxns == 1

TxnIds == 1..(IF MaxTxns >= MaxLLMTxns THEN MaxTxns ELSE MaxLLMTxns)
Amounts == {10000}
NoTxn == [amount |-> 0, ts |-> 0, present |-> FALSE]

VARIABLES
    now,      \* clock (datetime.now / get_ist_now)
    file,     \* snapshot file: TxnIds -> [amount, ts, present]
    conn,     \* the payment_connections row
    goals,    \* the goals table, in creation order
    tasks,    \* bag of the requests in flight: position and locals of each
    nreq,     \* number of Create and Sync requests received
    applied,  \* history: per transaction id, allocation batches that credited goals with it (counted up to 2)
    emailed,  \* history: ids named in an "income allocated" e-mail
    streak,   \* the user_streaks row; a date is the day number, NoDate for NULL
    hist      \* history: synced tells whether Syncs have run to their end with
              \* nothing else since ("handled": the handlers have, "done": their
              \* tasks too, "second": a Sync has begun right after that);
              \* skipped holds the ids of the batches that an allocation found
              \* no active goal for; ran is the batch of the allocation that
              \* returned last after marking its ids; snapshot is the
              \* condition of the snapshot file on the server's disk

vars == <<now, file, conn, goals, tasks, nreq, applied, emailed, hist, streak>>

\* --------------------------------------------------------- arithmetic ----
Max(a, b) == IF a >= b THEN a ELSE b
Min(a, b) == IF a <= b THEN a ELSE b

RECURSIVE SumAmounts(_)
SumAmounts(S) ==
    IF S = {} THEN 0
    ELSE LET t == CHOOSE x \in S : TRUE IN file[t].amount + SumAmounts(S \ {t})

\* ------------------------------------------------------------- state -----
NoAlloc == [t \in TxnIds |-> 0]
Ids(alloc) == {t \in TxnIds : alloc[t] > 0}
NoPayload == [txs |-> {}, alloc |-> NoAlloc]
\* locals of a request: prev is previous_last_sync, existing is
\* existing_allocated_ids, income is new_income_transactions, copy is the
\* task's connection_data; reconnect tells a Create that reused a row; seen
\* is the list of goals the task has read for its tool calls
NewTask(pc) == [pc |-> pc, prev |-> 0, existing |-> {}, income |-> {},
                copy |-> NoPayload, reconnect |-> FALSE, seen |-> <<>>]

\* get_or_create_streak: the row a user starts with
NoDate == 0 - 1
NewStreak ==
    [savings_streak |-> 0, longest_savings_streak |-> 0, last_savings_date |-> NoDate,
     transaction_streak |-> 0, longest_transaction_streak |-> 0,
     last_transaction_date |-> NoDate]

Init ==
    /\ streak = NewStreak
    /\ now = 0
    /\ file = [t \in TxnIds |-> NoTxn]
    /\ conn = [status |-> "none", created_at |-> 0, last_sync |-> 0,
               txs |-> {}, alloc |-> NoAlloc]
    /\ goals = <<>>
    /\ tasks = EmptyBag
    /\ nreq = 0
    /\ applied = [t \in TxnIds |-> 0]
    /\ emailed = {}
    /\ hist = [synced |-> "no", skipped |-> {}, ran |-> {}, snapshot |-> "present",
               called |-> NoDate]

\* history after a step that is no part of a Sync
Other(h) == [h EXCEPT !.synced = "no"]
\* history after a step that ends a Sync's task, bag the requests left
Ended(h, bag) ==
    [h EXCEPT !.synced = IF h.synced = "handled" /\ bag = EmptyBag THEN "done" ELSE h.synced]
Skipped(h, ids) == [h EXCEPT !.skipped = h.skipped \cup ids]
Ran(h, ids) == [h EXCEPT !.ran = ids]
\* history after the Sync handler ran at time at
Called(h, at) == [h EXCEPT !.called = at]

\* ---------------------------------------------------- streak service -----
\* the day's first update continues the streak after a day, restarts it at 1
\* after a gap or at the first use, and raises the record when it is beaten;
\* a later update of the same day returns before it writes
StreakAfter(current, last, today) ==
    IF last = today - 1 THEN current + 1 ELSE 1

ForgetfulSavingsStreak(s, today) ==
    IF s.last_savings_date = today THEN s
    ELSE [s EXCEPT !.savings_streak = StreakAfter(s.savings_streak, s.last_savings_date, today),
                   !.last_savings_date = today]
update_savings_streak(s, today) ==
    IF s.last_savings_date = today THEN s
    ELSE LET current == StreakAfter(s.savings_streak, s.last_savings_date, today) IN
         [s EXCEPT !.savings_streak = current,
                   !.longest_savings_streak = IF current > @ THEN current ELSE @,
                   !.last_savings_date = today]

update_transaction_streak(s, today) ==
    IF s.last_transaction_date = today THEN s
    ELSE LET current == StreakAfter(s.transaction_streak, s.last_transaction_date, today) IN
         [s EXCEPT !.transaction_streak = current,
                   !.longest_transaction_streak = IF current > @ THEN current ELSE @,
                   !.last_transaction_date = today]

\* ------------------------------------------------------- environment -----
Tick ==
    /\ now < MaxTime
    /\ now' = now + 1
    /\ UNCHANGED <<file, conn, goals, tasks, nreq, applied, emailed, hist, streak>>

\* an operator appends a credit to the snapshot file
AddCredit(limit, amounts) ==
    \E a \in amounts, ts \in {now, now + 1} :
        LET t == Cardinality({x \in TxnIds : file[x].present}) + 1 IN
        /\ t <= limit
        /\ file' = [file EXCEPT ![t] = [amount |-> a, ts |-> ts, present |-> TRUE]]
        /\ hist' = Other(hist)
        /\ UNCHANGED <<now, conn, goals, tasks, nreq, applied, emailed, streak>>
AdminAddCredit(limit) == AddCredit(limit, Amounts)

\* the snapshot file of a connected gateway is removed, damaged or put back
SetSnapshot(states) ==
    \E s \in states :
        /\ conn.status = "connected"
        /\ hist.snapshot # s
        /\ hist' = [Other(hist) EXCEPT !.snapshot = s]
        /\ UNCHANGED <<now, file, conn, goals, tasks, nreq, applied, emailed, streak>>

load_mock_data == {t \in TxnIds : file[t].present}

\* ----------------------------------------------------- program constants --
MinEmergencyTarget == 10000
MinSavings1Target == 5000
MinSavings2Target == 3000
MinResizedTarget == 5000
DefaultMonthlyIncome == 30000
RatioNormalizer == 50000
MinBuffer == 1000
MaxEmergencyPercent == 15
MaxGoalPercent == 25
FallbackEmergencyPercent == 10
FallbackGoalPercent == 15
TotalAllocationPercent == 40

\* -------------------------------------------------------------- goals -----
Goal(name, type, target, saved) ==
    [name |-> name, type |-> type, target |-> target, saved |-> saved, done |-> FALSE]

\* get_user_goals orders by created_at descending: newest first
RECURSIVE Newest(_)
Newest(n) == IF n = 0 THEN <<>> ELSE <<n>> \o Newest(n - 1)

get_user_goals(gs, include_completed) ==
    SelectSeq(Newest(Len(gs)), LAMBDA i : include_completed \/ ~gs[i].done)

IsEmergency(g) == g.type = "emergency"
HasGoal1(g) == g.name = "Savings Goal 1"
HasGoal2(g) == g.name = "Savings Goal 2"
\* recurring goals: the name holds one of the keywords (fund, savings, ...) or
\* the type is emergency
IsRecurring(g) ==
    IsEmergency(g) \/ g.name \in {"Emergency Fund", "Savings Goal 1", "Savings Goal 2"}

create_goal(gs, name, type, target, saved) == Append(gs, Goal(name, type, target, saved))

update_goal_target(gs, i, target) == [gs EXCEPT ![i].target = target]

\* update_goal with a GoalUpdate of the client: the fields given are stored
NoUpdate == [has_target |-> FALSE, target |-> 0, has_completed |-> FALSE, is_completed |-> FALSE]
MarkCompleted == [NoUpdate EXCEPT !.has_completed = TRUE, !.is_completed = TRUE]
ZeroTarget == [NoUpdate EXCEPT !.has_target = TRUE]
UserUpdates == {MarkCompleted, ZeroTarget}
update_goal(gs, i, upd) ==
    [gs EXCEPT ![i].target = IF upd.has_target THEN upd.target ELSE @,
               ![i].done = IF upd.has_completed THEN upd.is_completed ELSE @]

\* UPDATE_GOAL tool: a completed goal whose new target exceeds saved is re-opened
_update_goal_tool(gs, i, target) ==
    [gs EXCEPT ![i].target = target,
               ![i].done = IF gs[i].done /\ target > gs[i].saved THEN FALSE ELSE gs[i].done]

\* ALLOCATE_TO_GOAL tool: add, cap at target, mark completed when target reached
UncappedAllocate(gs, i, amount) ==
    [gs EXCEPT ![i].saved = gs[i].saved + amount,
               ![i].done = IF gs[i].saved + amount >= gs[i].target THEN TRUE ELSE gs[i].done]
SavedOnlyAllocate(gs, i, amount) ==
    [gs EXCEPT ![i].saved = Min(gs[i].target, gs[i].saved + amount)]
_allocate_to_goal_tool(gs, i, amount) ==
    LET sum == gs[i].saved + amount
        new_saved == IF sum > gs[i].target THEN gs[i].target ELSE sum
    IN [gs EXCEPT ![i].saved = new_saved,
                  ![i].done = IF new_saved >= gs[i].target THEN TRUE ELSE gs[i].done]

RECURSIVE TotalSaved(_)
TotalSaved(gs) == IF gs = <<>> THEN 0 ELSE Head(gs).saved + TotalSaved(Tail(gs))

\* ------------------------------------------------------ user data ---------
\* get_real_user_data: credits of the payload of a connected connection
UserIncome ==
    IF conn.status = "connected" THEN {t \in conn.txs : file[t].amount > 0} ELSE {}

\* emergency_fund_agent: half of the recent income, at least MinBuffer
recommended_buffer == Max(MinBuffer, SumAmounts(UserIncome) \div 2)

\* calculate_base_targets and the in-line copies of it; the average monthly
\* income is the fraction num / den
EmergencyTarget(num, den) == Max(MinEmergencyTarget, (num * 315) \div (den * 100))
Savings1Target(num, den) == Max(MinSavings1Target, (num * 2) \div den)
Savings2Target(num, den) == Max(MinSavings2Target, (num * 3) \div (den * 2))

\* ------------------------------------------------- allocation plan -------
PlanAmount(income, percent) == (income * percent) \div 100
Clamp(lo, hi, x) == Max(lo, Min(hi, x))

AllGoals(gs) == get_user_goals(gs, TRUE)
ActiveGoals(gs) == get_user_goals(gs, FALSE)
EmergencyGoals(gs) == SelectSeq(ActiveGoals(gs), LAMBDA i : IsEmergency(gs[i]))
RegularGoals(gs) == SelectSeq(ActiveGoals(gs), LAMBDA i : ~IsEmergency(gs[i]))

\* What the language model may answer: percentages above the caps and a
\* list of goal entries, each naming the first or the second regular goal it
\* was shown or an id that matches no goal (written 0); or no usable answer.
\* The lists tried are: two unmatched ids, the two goals alternately, and
\* the first goal repeated, the last two with MaxPlanLen entries.
LLMEmergencyPercent == MaxEmergencyPercent + 5
LLMGoalPercent == MaxGoalPercent + 15
KindToId(gs, kind) ==
    LET rg == RegularGoals(gs) IN
    IF kind = "first" /\ Len(rg) >= 1 THEN rg[1]
    ELSE IF kind = "second" /\ Len(rg) >= 2 THEN rg[2]
    ELSE 0
PlanShapes ==
    {<<"unknown", "unknown">>,
     [k \in 1..MaxPlanLen |-> IF k % 2 = 1 THEN "first" ELSE "second"],
     [k \in 1..MaxPlanLen |-> "first"]}
NoAnswer == [ok |-> FALSE, ep |-> 0, gp |-> 0, kinds |-> <<>>]
\* an answer that parses and allocates nothing: 0 percent, no goal_allocations
ZeroPlan == [ok |-> TRUE, ep |-> 0, gp |-> 0, kinds |-> <<>>]
LLMAnswers ==
    {NoAnswer, ZeroPlan} \cup
    {[ok |-> TRUE, ep |-> LLMEmergencyPercent, gp |-> LLMGoalPercent, kinds |-> f] :
        f \in PlanShapes}

\* goals_summary, the list of goals in the prompt: the active emergency goals
\* and the first three active regular goals, sorted (stably) by urgency rank,
\* days until the deadline and the negated progress. The deadlines are those
\* the goals are created with, seen on the day of their creation: 180 and 120
\* days for the two savings goals of the bootstrap, ten years otherwise.
DaysUntilDeadline(g) ==
    IF g.name = "Savings Goal 1" THEN 180
    ELSE IF g.name = "Savings Goal 2" THEN 120
    ELSE 3650
ProgressNum(g) == IF g.target > 0 THEN g.saved ELSE 0
ProgressDen(g) == IF g.target > 0 THEN g.target ELSE 1
UrgencyRank(g) ==
    LET days == DaysUntilDeadline(g) IN
    IF 100 * ProgressNum(g) < 50 * ProgressDen(g) /\ days <= 60 THEN 1
    ELSE IF days < 0 THEN 0
    ELSE IF days <= 30 THEN 1
    ELSE IF days <= 90 THEN 2
    ELSE IF days <= 180 THEN 3
    ELSE 4
\* the sort key of a is smaller than that of b
KeyLess(a, b) ==
    \/ UrgencyRank(a) < UrgencyRank(b)
    \/ /\ UrgencyRank(a) = UrgencyRank(b)
       /\ \/ DaysUntilDeadline(a) < DaysUntilDeadline(b)
          \/ /\ DaysUntilDeadline(a) = DaysUntilDeadline(b)
             /\ ProgressNum(a) * ProgressDen(b) > ProgressNum(b) * ProgressDen(a)
goals_summary(gs) ==
    LET rg == RegularGoals(gs)
        input == EmergencyGoals(gs) \o SubSeq(rg, 1, Min(3, Len(rg)))
        n == Len(input)
        precedes(q, p) ==
            \/ KeyLess(gs[input[q]], gs[input[p]])
            \/ ~KeyLess(gs[input[p]], gs[input[q]]) /\ q < p
        place(p) == 1 + Cardinality({q \in 1..n : precedes(q, p)})
    IN [r \in 1..n |-> input[CHOOSE p \in 1..n : place(p) = r]]

EveryGoalPlan(income, gs, answer) ==
    [emergency |-> PlanAmount(income, FallbackEmergencyPercent),
     emergency_percent |-> FallbackEmergencyPercent,
     entries |-> [k \in 1..Len(RegularGoals(gs)) |->
                     [goal_id |-> RegularGoals(gs)[k],
                      percent |-> FallbackGoalPercent,
                      amount |-> PlanAmount(income, FallbackGoalPercent)]],
     total_allocation_percent |-> TotalAllocationPercent]
determine_allocation_percentages(income, gs, answer) ==
    LET regular == RegularGoals(gs)
        ep == Clamp(0, MaxEmergencyPercent, answer.ep)
        gp == Clamp(0, MaxGoalPercent, answer.gp)
    IN
    IF answer.ok
    THEN [emergency |-> PlanAmount(income, ep),
          emergency_percent |-> ep,
          entries |-> [k \in 1..Len(answer.kinds) |->
                          [goal_id |-> KindToId(gs, answer.kinds[k]),
                           percent |-> gp,
                           amount |-> PlanAmount(income, gp)]],
          total_allocation_percent |-> TotalAllocationPercent]
    ELSE [emergency |-> PlanAmount(income, FallbackEmergencyPercent),
          emergency_percent |-> FallbackEmergencyPercent,
          entries |-> [k \in 1..Min(2, Len(regular)) |->
                          [goal_id |-> regular[k],
                           percent |-> FallbackGoalPercent,
                           amount |-> PlanAmount(income, FallbackGoalPercent)]],
          total_allocation_percent |-> TotalAllocationPercent]

\* sum of the percents of a plan's goal_allocations
RECURSIVE SumPercents(_)
SumPercents(entries) ==
    IF entries = <<>> THEN 0 ELSE Head(entries).percent + SumPercents(Tail(entries))

\* ------------------------------------------------- applying a plan -------
\* gs0 is the goal list as read before the first tool call (the amounts are
\* clamped against it); gs is the table as the tool calls update it; acts is
\* the list of amounts the tool calls report as allocated.
NoActions == <<>>

AllocateEmergency(gs0, gs, plan) ==
    LET eg == EmergencyGoals(gs0) IN
    IF eg # <<>> /\ plan.emergency > 0
       /\ gs0[eg[1]].target - gs0[eg[1]].saved > 0 /\ gs0[eg[1]].target > 0
    THEN LET a == Min(gs0[eg[1]].target - gs0[eg[1]].saved, plan.emergency) IN
         [goals |-> _allocate_to_goal_tool(gs, eg[1], a), acts |-> <<a>>]
    ELSE [goals |-> gs, acts |-> NoActions]

\* regular-goal loop of allocate_income_from_sync
RECURSIVE SyncApply(_, _, _, _, _)
SyncApply(entries, rg, gs0, gs, acts) ==
    IF entries = <<>> THEN [goals |-> gs, acts |-> acts]
    ELSE LET e == Head(entries)
             matched == \E k \in 1..Len(rg) : rg[k] = e.goal_id
             m == IF matched THEN e.goal_id ELSE IF rg # <<>> THEN rg[1] ELSE 0
             rg2 == IF ~matched /\ rg # <<>> THEN Tail(rg) ELSE rg
             can == /\ m # 0
                    /\ e.amount > 0
                    /\ gs0[m].target # 0
                    /\ gs0[m].target - gs0[m].saved > 0
         IN IF can
            THEN LET a == Min(gs0[m].target - gs0[m].saved, e.amount) IN
                 SyncApply(Tail(entries), rg2, gs0, _allocate_to_goal_tool(gs, m, a), Append(acts, a))
            ELSE SyncApply(Tail(entries), rg2, gs0, gs, acts)

\* regular-goal loop of allocate_income_from_new_connection
FirstIndex(all, e) == CHOOSE j \in 1..Len(all) : all[j] = e /\ \A i \in 1..(j - 1) : all[i] # e
RECURSIVE NewConnApply(_, _, _, _, _, _)
NewConnApply(entries, all, rg, gs0, gs, acts) ==
    IF entries = <<>> THEN [goals |-> gs, acts |-> acts]
    ELSE LET e == Head(entries)
             exact == \E k \in 1..Len(rg) : rg[k] = e.goal_id
             j == FirstIndex(all, e)
             m == IF e.amount <= 0 THEN 0
                  ELSE IF exact THEN e.goal_id
                  ELSE IF rg # <<>> /\ j <= Len(rg) THEN rg[j] ELSE 0
             can == /\ m # 0
                    /\ gs0[m].target # 0
                    /\ gs0[m].target - gs0[m].saved > 0
         IN IF can
            THEN LET a == Min(gs0[m].target - gs0[m].saved, e.amount) IN
                 NewConnApply(Tail(entries), all, rg, gs0, _allocate_to_goal_tool(gs, m, a), Append(acts, a))
            ELSE NewConnApply(Tail(entries), all, rg, gs0, gs, acts)

\* ------------------------------------------------ connection rows --------
Payload(c) == [txs |-> c.txs, alloc |-> c.alloc]

\* create_connection: data is the payload the router built, the snapshot
\* file overlaid with the connection_data of the request body.  A
\* disconnected row of the same name is reused, keeping its created_at and,
\* when it has any, its allocated_transaction_ids; a new row stores data.
ForgetfulCreate(c, data) ==
    [status |-> "connected", created_at |-> IF c.status = "disconnected" THEN c.created_at ELSE now,
     last_sync |-> now, txs |-> data.txs, alloc |-> NoAlloc]
create_connection(c, data) ==
    IF c.status = "disconnected"
    THEN [c EXCEPT !.status = "connected", !.last_sync = now, !.txs = data.txs,
                   !.alloc = IF Ids(c.alloc) # {} THEN c.alloc ELSE data.alloc]
    ELSE [status |-> "connected", created_at |-> now, last_sync |-> now,
          txs |-> data.txs, alloc |-> data.alloc]

disconnect_connection(c) == [c EXCEPT !.status = "disconnected"]

\* update_connection with a connection_data update: the stored payload is
\* merged key by key, the update's keys winning
update_connection(c, data) == [c EXCEPT !.txs = data.txs, !.alloc = data.alloc]

\* extend(new_ids) on the list of a payload copy
ExtendAlloc(alloc, ids) ==
    [t \in TxnIds |-> IF t \in ids /\ alloc[t] = 0 THEN alloc[t] + 1 ELSE alloc[t]]

\* ------------------------------------------------ request handlers -------
Put(b, t) == b (+) SetToBag({t})
Take(b, t) == b (-) SetToBag({t})
Move(t, u) == Put(Take(tasks, t), u)
InFlight == BagToSet(tasks)

\* allocated_transaction_ids of the connection_data of a request body: the
\* key absent (NoAlloc), or the list [1]
NoBody == NoAlloc
ClientBodies == {NoBody, [t \in TxnIds |-> IF t = 1 THEN 1 ELSE 0]}

\* the background tasks of POST /connections in add_task order; they run one
\* after the other, the second when the first has returned
AllocationFirst == <<"allocate_new", "process_goals">>
TasksOfCreate == <<"process_goals", "allocate_new">>

\* create_connection refuses a name that is connected already (400)
NoConflict(c) == FALSE
Conflict(c) == c.status = "connected"

\* POST /connections: load_mock_data, create_connection, then two background
\* tasks in this order: process_goals_after_connection, allocate_income_from_new_connection
connect_payment_gateway(limit, bodies) ==
    /\ nreq < limit
    /\ IF Conflict(conn)
       THEN UNCHANGED <<conn, tasks>>
       ELSE /\ \E body \in bodies :
                  conn' = create_connection(conn, [txs |-> load_mock_data, alloc |-> body])
            /\ tasks' = Put(tasks, [NewTask(TasksOfCreate[1]) EXCEPT
                                       !.reconnect = (conn.status = "disconnected")])
    /\ nreq' = nreq + 1
    /\ hist' = IF Conflict(conn) THEN [hist EXCEPT !.synced = "conflict"] ELSE Other(hist)
    /\ UNCHANGED <<now, file, goals, applied, emailed, streak>>

\* POST /connections/{id}/disconnect
disconnect_payment_gateway ==
    /\ conn.status # "none"
    /\ conn' = disconnect_connection(conn)
    /\ hist' = Other(hist)
    /\ UNCHANGED <<now, file, goals, tasks, nreq, applied, emailed, streak>>

\* PATCH /connections/{id} with a connection_data that holds
\* allocated_transaction_ids only
update_connection_details(bodies) ==
    /\ conn.status # "none"
    /\ \E body \in bodies :
          conn' = update_connection(conn, [txs |-> conn.txs, alloc |-> body])
    /\ hist' = Other(hist)
    /\ UNCHANGED <<now, file, goals, tasks, nreq, applied, emailed, streak>>

\* ------------------------------------- process_goals_after_connection ----
\* refine_targets_with_llm: the model's three numbers, clamped; the base
\* targets when it gives no usable answer
NoRefinement == [ok |-> FALSE, e |-> 0, s1 |-> 0, s2 |-> 0]
RefineAnswers == {NoRefinement, [ok |-> TRUE, e |-> 0, s1 |-> 0, s2 |-> 0]}
calculate_goal_targets(num, den, answer) ==
    IF answer.ok
    THEN [e |-> Max(MinEmergencyTarget, Min((num * 84) \div (den * 10), answer.e)),
          s1 |-> Max(MinSavings1Target, Min((num * 6) \div den, answer.s1)),
          s2 |-> Max(MinSavings2Target, Min((num * 6) \div den, answer.s2))]
    ELSE [e |-> EmergencyTarget(num, den), s1 |-> Savings1Target(num, den),
          s2 |-> Savings2Target(num, den)]

\* monthly average of process_goals_after_connection, total / max(1, n / 30),
\* as the fraction IncomeNum / IncomeDen
IncomeNum == SumAmounts(UserIncome) * 30
IncomeDen == Max(30, Cardinality(UserIncome))

CreateMissingGoals(gs, answer) ==
    LET has_income == UserIncome # {}
        num == IF has_income THEN IncomeNum ELSE DefaultMonthlyIncome
        den == IF has_income THEN IncomeDen ELSE 1
        targets == calculate_goal_targets(num, den, answer)
        rg == RegularGoals(gs)
        has_emergency == \E i \in 1..Len(gs) : IsEmergency(gs[i])
        has_1 == \E k \in 1..Len(rg) : HasGoal1(gs[rg[k]])
        has_2 == \E k \in 1..Len(rg) : HasGoal2(gs[rg[k]])
        g1 == IF has_emergency THEN gs
              ELSE create_goal(gs, "Emergency Fund", "emergency", targets.e, 0)
        g2 == IF has_1 THEN g1 ELSE create_goal(g1, "Savings Goal 1", "savings", targets.s1, 0)
    IN IF has_2 THEN g2 ELSE create_goal(g2, "Savings Goal 2", "savings", targets.s2, 0)

\* int(avg * 2 * (cur / max(RatioNormalizer, avg * 2))) for avg = num / den,
\* the fraction reduced before the multiplication
RECURSIVE GCD(_, _)
GCD(a, b) == IF b = 0 THEN a ELSE GCD(b, a % b)
RatioTarget(num, den, cur) ==
    LET a == 2 * num
        b == Max(RatioNormalizer * den, 2 * num)
        g == GCD(a, b)
    IN ((a \div g) * cur) \div (b \div g)

\* target the else-branch computes for one existing goal
ResizedTarget(gs, i, single) ==
    LET cur == gs[i].target
        num == IncomeNum
        den == IncomeDen
    IN IF IsEmergency(gs[i])
       THEN Max(MinEmergencyTarget, IF num > 0 THEN (num * 315) \div (den * 100) ELSE cur)
       ELSE IF num > 0
            THEN Max(MinResizedTarget,
                     IF HasGoal1(gs[i]) \/ single THEN (num * 2) \div den
                     ELSE IF HasGoal2(gs[i]) THEN (num * 3) \div (den * 2)
                     ELSE IF cur > 0
                          THEN RatioTarget(num, den, cur)
                          ELSE (num * 3) \div (den * 2))
            ELSE cur

Abs(x) == IF x < 0 THEN -x ELSE x

RECURSIVE ResizeExisting(_, _, _)
ResizeExisting(todo, gs, single) ==
    IF todo = <<>> THEN gs
    ELSE LET i == Head(todo)
             new_target == ResizedTarget(gs, i, single)
         IN ResizeExisting(Tail(todo),
                IF 10 * Abs(new_target - gs[i].target) > gs[i].target
                THEN update_goal_target(gs, i, new_target) ELSE gs,
                single)

process_goals_after_connection(gs, answer) ==
    LET has_emergency == \E i \in 1..Len(gs) : IsEmergency(gs[i])
        needs_goals == Len(gs) = 0 \/ ~has_emergency \/ Len(RegularGoals(gs)) < 2
    IN IF needs_goals THEN CreateMissingGoals(gs, answer)
       ELSE ResizeExisting(ActiveGoals(gs), gs, Len(ActiveGoals(gs)) = 1)

ProcessGoals(t, answers) ==
    /\ t.pc = "process_goals"
    /\ \E answer \in answers :
          goals' = process_goals_after_connection(goals, answer)
    /\ tasks' = Move(t, [t EXCEPT !.pc = TasksOfCreate[2]])
    /\ hist' = Other(hist)
    /\ UNCHANGED <<now, file, conn, nreq, applied, emailed, streak>>

\* ------------------------------- allocate_income_from_new_connection -----
\* credits of the payload dated at or after the connection's creation
NewConnectionIncome(c) ==
    {t \in c.txs : file[t].amount > 0 /\ file[t].ts >= c.created_at}

Bump(f, S) == [t \in TxnIds |-> IF t \in S THEN Min(2, f[t] + 1) ELSE f[t]]

NewConnPlan(gs, income, answer) ==
    LET plan == determine_allocation_percentages(SumAmounts(income), gs, answer)
        first == AllocateEmergency(gs, gs, plan)
    IN NewConnApply(plan.entries, plan.entries, RegularGoals(gs), gs, first.goals, first.acts)

\* everything up to and including the e-mail; every tool call commits
AllocateNew(t, answers) ==
    /\ t.pc = "allocate_new"
    /\ LET income == NewConnectionIncome(conn) IN
       IF conn.status # "connected" \/ income = {} \/ ActiveGoals(goals) = <<>>
       THEN /\ tasks' = Take(tasks, t)
            /\ hist' = Other(hist)
            /\ UNCHANGED <<goals, applied, emailed, streak>>
       ELSE \E answer \in answers :
              LET res == NewConnPlan(goals, income, answer) IN
              /\ goals' = res.goals
              /\ hist' = Other(IF res.acts # NoActions THEN Ran(hist, {}) ELSE hist)
              /\ IF res.acts # NoActions
                 THEN /\ tasks' = Move(t, [t EXCEPT !.pc = "mark_new", !.income = income,
                                                    !.copy = Payload(conn)])
                      /\ applied' = Bump(applied, income)
                      /\ streak' = update_savings_streak(streak, now)
                      /\ emailed' = emailed \cup income
                 ELSE /\ tasks' = Take(tasks, t)
                      /\ UNCHANGED <<applied, emailed, streak>>
    /\ UNCHANGED <<now, file, conn, nreq>>

\* the write-back of the ids through update_connection
MarkNew(t) ==
    /\ t.pc = "mark_new"
    /\ conn' = update_connection(conn,
                  [t.copy EXCEPT !.alloc = ExtendAlloc(t.copy.alloc, t.income)])
    /\ tasks' = Take(tasks, t)
    /\ hist' = Other(Ran(hist, t.income))
    /\ UNCHANGED <<now, file, goals, nreq, applied, emailed, streak>>

\* ------------------------------------------------ POST .../sync ----------
\* sync_connection. With the snapshot file present and readable the
\* transactions are replaced by the file's and the ids are kept; with the file
\* missing the stored payload is kept; either way last_sync is set and the
\* row committed. With a file that json.load rejects, the except clause reads
\* existing_data, which is bound only after the load: the function raises
\* before last_sync is assigned and nothing is committed.
SnapshotStates == {"present", "missing", "invalid"}
OverwritingSync(c) ==
    IF hist.snapshot = "present" THEN [c EXCEPT !.txs = load_mock_data, !.last_sync = now]
    ELSE [c EXCEPT !.txs = {}, !.alloc = NoAlloc, !.last_sync = now]
SyncRaises == hist.snapshot = "invalid"
sync_connection(c) ==
    IF hist.snapshot = "present" THEN [c EXCEPT !.txs = load_mock_data, !.last_sync = now]
    ELSE IF hist.snapshot = "missing" THEN [c EXCEPT !.last_sync = now]
    ELSE c

\* list(merged_allocated_ids): every id once
AsList(S) == [t \in TxnIds |-> IF t \in S THEN 1 ELSE 0]

\* the handler's restore of ids that the stored payload has lost
RestoreIds(c, existing) ==
    IF Cardinality(existing \cup Ids(c.alloc)) > Cardinality(Ids(c.alloc))
    THEN update_connection(c, [txs |-> c.txs, alloc |-> AsList(existing \cup Ids(c.alloc))])
    ELSE c

\* eligibility diff of the handler
TimeOnlyIncome(txs, allocated, prev, created_at, today) ==
    LET cutoff == Max(prev, created_at) IN
    {t \in txs : /\ file[t].amount > 0
                 /\ \/ file[t].ts > today
                    \/ file[t].ts > cutoff /\ file[t].ts > created_at}
NewIncomeSet(txs, allocated, prev, created_at, today) ==
    LET cutoff == Max(prev, created_at) IN
    {t \in txs : /\ file[t].amount > 0
                 /\ t \notin allocated
                 /\ \/ file[t].ts > today
                    \/ file[t].ts > cutoff /\ file[t].ts > created_at}

\* the handler reads the row: previous_last_sync and existing_allocated_ids
SyncBegin(limit) ==
    /\ nreq < limit
    /\ conn.status # "none"
    /\ tasks' = Put(tasks, [NewTask("sync") EXCEPT !.prev = conn.last_sync,
                                                   !.existing = Ids(conn.alloc)])
    /\ nreq' = nreq + 1
    /\ hist' = [hist EXCEPT !.synced = IF hist.synced = "done" THEN "second"
                                       ELSE IF hist.synced = "handled" THEN "handled"
                                       ELSE "no"]
    /\ UNCHANGED <<now, file, conn, goals, applied, emailed, streak>>

\* sync_connection, the restore, the diff and the enqueueing of the task
SyncFinish(t) ==
    /\ t.pc = "sync"
    /\ IF SyncRaises
       THEN /\ conn' = conn
            /\ tasks' = Take(tasks, t)
            /\ hist' = Called(Other(hist), now)
       ELSE LET c == RestoreIds(sync_connection(conn), t.existing)
                income == NewIncomeSet(c.txs, t.existing \cup Ids(c.alloc), t.prev, c.created_at, now)
            IN /\ conn' = c
               /\ tasks' = IF income # {}
                           THEN Move(t, [t EXCEPT !.pc = "allocate_sync", !.income = income])
                           ELSE Take(tasks, t)
               /\ hist' = Called(IF income # {} THEN [hist EXCEPT !.synced = "handled"]
                                 ELSE IF hist.synced = "second" THEN [hist EXCEPT !.synced = "done"]
                                 ELSE Ended([hist EXCEPT !.synced = "handled"], Take(tasks, t)),
                                 now)
    /\ UNCHANGED <<now, file, goals, nreq, applied, emailed, streak>>

\* ------------------------------------- allocate_income_from_sync ---------
\* goals created when the user has none: the average is total / max(3, n)
SyncIncomeNum(total_new) ==
    IF UserIncome # {} THEN SumAmounts(UserIncome) ELSE total_new * 30
SyncIncomeDen == IF UserIncome # {} THEN Max(3, Cardinality(UserIncome)) ELSE 1

BootstrapGoals(gs, total_new) ==
    IF Len(gs) # 0 THEN gs
    ELSE LET num == SyncIncomeNum(total_new)
             den == SyncIncomeDen
         IN << Goal("Emergency Fund", "emergency", EmergencyTarget(num, den), 0),
               Goal("Savings Goal 1", "savings", Savings1Target(num, den), 0),
               Goal("Savings Goal 2", "savings", Savings2Target(num, den), 0) >>

\* adaptive resize: a target is only ever raised
NeedsRaise(current, recommended) ==
    current = 0 \/ 10 * current < 8 * recommended \/ 10 * recommended > 12 * current

RECURSIVE RaiseEmergency(_, _, _)
RaiseEmergency(todo, gs, recommended) ==
    IF todo = <<>> THEN gs
    ELSE RaiseEmergency(Tail(todo),
            IF NeedsRaise(gs[Head(todo)].target, recommended)
            THEN _update_goal_tool(gs, Head(todo), recommended) ELSE gs,
            recommended)

RaiseRegular(gs0, gs, k, recommended) ==
    LET rg == RegularGoals(gs0) IN
    IF Len(rg) >= k /\ NeedsRaise(gs0[rg[k]].target, recommended)
    THEN _update_goal_tool(gs, rg[k], recommended) ELSE gs

ResizeGoals(gs, total_new) ==
    LET num == SyncIncomeNum(total_new)
        den == SyncIncomeDen
        recommended == Max(recommended_buffer, EmergencyTarget(num, den))
        g1 == RaiseEmergency(EmergencyGoals(gs), gs, recommended)
        g2 == RaiseRegular(gs, g1, 1, Savings1Target(num, den))
    IN RaiseRegular(gs, g2, 2, Savings2Target(num, den))

\* gs0 is the list of goals the task has read, gs the table at its tool calls
SyncPlan(gs0, gs, total_new, answer) ==
    LET plan == determine_allocation_percentages(total_new, gs0, answer)
        first == AllocateEmergency(gs0, gs, plan)
    IN SyncApply(plan.entries, RegularGoals(gs0), gs0, first.goals, first.acts)

\* the plan, the tool calls, the streak update and the e-mail
SyncTools(t, gs0, gs, filtered, copy, answers) ==
    \E answer \in answers :
        LET res == SyncPlan(gs0, gs, SumAmounts(filtered), answer) IN
        /\ goals' = res.goals
        /\ IF res.acts # NoActions
           THEN /\ tasks' = Move(t, [t EXCEPT !.pc = "mark_sync", !.income = filtered,
                                              !.copy = copy])
                /\ applied' = Bump(applied, filtered)
                /\ streak' = update_savings_streak(streak, now)
                /\ emailed' = emailed \cup filtered
                /\ hist' = Ran(hist, {})
           ELSE /\ tasks' = Take(tasks, t)
                /\ hist' = Ended(hist, Take(tasks, t))
                /\ UNCHANGED <<applied, emailed, streak>>

\* the task up to and including the e-mail: the row is read and the income
\* filtered against its ids, goals are created or resized, the plan applied
AllocateSync(t, answers) ==
    /\ t.pc = "allocate_sync"
    /\ LET filtered == t.income \ Ids(conn.alloc)
           ready == ResizeGoals(BootstrapGoals(goals, SumAmounts(filtered)), SumAmounts(filtered))
       IN IF filtered = {}
          THEN /\ tasks' = Take(tasks, t)
               /\ hist' = Ended(hist, Take(tasks, t))
               /\ UNCHANGED <<goals, applied, emailed, streak>>
          ELSE IF ActiveGoals(ready) = <<>>
          THEN /\ tasks' = Take(tasks, t)
               /\ goals' = ready
               /\ hist' = Ended(Skipped(hist, filtered), Take(tasks, t))
               /\ UNCHANGED <<applied, emailed, streak>>
          ELSE SyncTools(t, ready, ready, filtered, Payload(conn), answers)
    /\ UNCHANGED <<now, file, conn, nreq>>

\* the same task in two steps, so that other requests commit in between: the
\* reads of the row and of the goals with the resize, then the tool calls
ReadGoalsSync(t) ==
    /\ t.pc = "allocate_sync"
    /\ LET filtered == t.income \ Ids(conn.alloc)
           ready == ResizeGoals(BootstrapGoals(goals, SumAmounts(filtered)), SumAmounts(filtered))
       IN IF filtered = {}
          THEN /\ tasks' = Take(tasks, t)
               /\ hist' = Ended(hist, Take(tasks, t))
               /\ UNCHANGED goals
          ELSE IF ActiveGoals(ready) = <<>>
          THEN /\ tasks' = Take(tasks, t)
               /\ goals' = ready
               /\ hist' = Ended(Skipped(hist, filtered), Take(tasks, t))
          ELSE /\ tasks' = Move(t, [t EXCEPT !.pc = "tools_sync", !.income = filtered,
                                             !.copy = Payload(conn), !.seen = ready])
               /\ goals' = ready
               /\ UNCHANGED hist
    /\ UNCHANGED <<now, file, conn, nreq, applied, emailed, streak>>

ToolsSync(t, answers) ==
    /\ t.pc = "tools_sync"
    /\ SyncTools(t, t.seen, goals, t.income, t.copy, answers)
    /\ UNCHANGED <<now, file, conn, nreq>>

\* the write-back of the ids through update_connection, then last_sync
MarkSync(t) ==
    /\ t.pc = "mark_sync"
    /\ conn' = [update_connection(conn,
                   [t.copy EXCEPT !.alloc = ExtendAlloc(t.copy.alloc, t.income)])
                EXCEPT !.last_sync = now]
    /\ tasks' = Take(tasks, t)
    /\ hist' = Ended(Ran(hist, t.income), Take(tasks, t))
    /\ UNCHANGED <<now, file, goals, nreq, applied, emailed, streak>>

\* ------------------------------------------------ PATCH /goals/{id} -----
update_user_goal(updates) ==
    /\ \E i \in 1..Len(goals), upd \in updates :
          /\ goals' = update_goal(goals, i, upd)
          /\ goals' # goals
    /\ hist' = Other(hist)
    /\ UNCHANGED <<now, file, conn, tasks, nreq, applied, emailed, streak>>

\* ------------------------------------------------------ POST /goals -----
\* goals the user adds by hand: a second emergency goal, a further savings
\* goal, a savings goal that starts with money already put aside
UserGoals == {[name |-> "Rainy Day", type |-> "emergency", target |-> 20000, saved |-> 0],
              [name |-> "Trip", type |-> "savings", target |-> 1000, saved |-> 0],
              [name |-> "Bike", type |-> "savings", target |-> 20000, saved |-> 9000]}
create_user_goal(limit, bodies) ==
    /\ Len(goals) < limit
    /\ \E goal \in bodies :
          goals' = create_goal(goals, goal.name, goal.type, goal.target, goal.saved)
    /\ hist' = Other(hist)
    /\ UNCHANGED <<now, file, conn, tasks, nreq, applied, emailed, streak>>

\* -------------------------------------------- POST /coach/monitor -------
\* income_pattern_agent: the credits of the user data dated today or before
\* (days_ago from 0 to 7; the clock of the model never runs for a week)
RecentIncome == {t \in UserIncome : file[t].ts <= now}

\* the monitor's first block: four tenths of the recent income, or what is
\* missing if that is less, to each of the first two goals of GET_GOALS
MonitorAllocate(gs, received) ==
    LET listed == get_user_goals(gs, TRUE)
        give(cur, k) ==
            IF k > Len(listed) THEN cur
            ELSE LET remaining == gs[listed[k]].target - gs[listed[k]].saved
                     allocation == Min(remaining, (received * 4) \div 10)
                 IN IF remaining > 0 /\ allocation > 0
                    THEN _allocate_to_goal_tool(cur, listed[k], allocation)
                    ELSE cur
    IN give(give(gs, 1), 2)

\* autonomous_monitor: the allocation of the recent income, then the
\* Emergency Fund when no goal of the user is of type emergency.  hist.ran
\* keeps the recent income the call saw.
autonomous_monitor(gs) ==
    LET given == IF RecentIncome # {} THEN MonitorAllocate(gs, SumAmounts(RecentIncome)) ELSE gs
    IN IF \E i \in 1..Len(given) : IsEmergency(given[i])
       THEN given
       ELSE create_goal(given, "Emergency Fund", "emergency", recommended_buffer, 0)

autonomous_monitoring(limit) ==
    /\ nreq < limit
    /\ goals' = autonomous_monitor(goals)
    /\ nreq' = nreq + 1
    /\ hist' = [hist EXCEPT !.synced = "monitored", !.ran = RecentIncome]
    /\ UNCHANGED <<now, file, conn, tasks, applied, emailed, streak>>

\* ------------------------------------------------ the goal planner -------
\* one-time goals: the name holds buy, purchase, phone, laptop, ...
PlannerGoals == {[name |-> "Buy Phone", type |-> "savings", target |-> 1000, saved |-> 0]}
IsOneTime(g) == g.name \in {"Buy Phone", "Next Phone Upgrade"}
IsRecurringName(g) == IsRecurring(g) \/ g.name = "General Savings Goal"

\* goal_planner_agent and _plan_goal_actions: four tenths of the income
\* received, split evenly over the goals of the user data that miss money
RECURSIVE Recommended(_, _, _, _)
Recommended(gs0, gs, needing, per_goal) ==
    IF needing = <<>> THEN gs
    ELSE LET i == Head(needing)
             suggested == Min(gs0[i].target - gs0[i].saved, per_goal)
         IN Recommended(gs0, IF suggested > 0 THEN _allocate_to_goal_tool(gs, i, suggested) ELSE gs,
                        Tail(needing), per_goal)
PlannedActions(gs, received) ==
    LET listed == get_user_goals(gs, FALSE)
        missing[k \in 0..Len(listed)] ==
            IF k = 0 THEN 0 ELSE missing[k - 1] + gs[listed[k]].target - gs[listed[k]].saved
        needing == SelectSeq(listed, LAMBDA i : gs[i].target - gs[i].saved > 0)
    IN IF missing[Len(listed)] > 0 /\ received > 0 /\ needing # <<>>
       THEN Recommended(gs, gs, needing, ((received * 4) \div 10) \div Len(needing))
       ELSE gs

\* the completed goals of GET_GOALS: a recurring one gets a target a quarter
\* higher, a one-time one a successor when the income exceeds half its target
RECURSIVE HandleCompleted(_, _, _, _)
HandleCompleted(gs0, gs, listed, recent_income) ==
    IF listed = <<>> THEN gs
    ELSE LET i == Head(listed)
             g == gs0[i]
             after ==
                 IF ~g.done THEN gs
                 ELSE IF IsRecurringName(g) /\ ~IsOneTime(g) /\ recent_income > 0
                 THEN _update_goal_tool(gs, i, (g.target * 125) \div 100)
                 ELSE IF IsOneTime(g) /\ 2 * recent_income > g.target
                 THEN create_goal(gs, "Next Phone Upgrade", "savings", (recent_income * 3) \div 10, 0)
                 ELSE gs
         IN HandleCompleted(gs0, after, Tail(listed), recent_income)

\* agentic_goal_planner_agent on user data with income of the last seven
\* days: nothing when a credit is dated today, else the planned allocations,
\* the completed goals, and a new goal when no goal is active
agentic_goal_planner_agent(gs) ==
    IF \E t \in RecentIncome : file[t].ts = now THEN gs
    ELSE LET recent_income == SumAmounts(RecentIncome)
             executed == PlannedActions(gs, recent_income)
             handled == HandleCompleted(executed, executed, get_user_goals(executed, TRUE), recent_income)
         IN IF Len(executed) > 0 /\ get_user_goals(executed, FALSE) = <<>> /\ recent_income > 0
            THEN create_goal(handled, "General Savings Goal", "savings", (recent_income * 4) \div 10, 0)
            ELSE handled

GoalPlannerRun(limit) ==
    /\ nreq < limit
    /\ RecentIncome # {}
    /\ goals' = agentic_goal_planner_agent(goals)
    /\ nreq' = nreq + 1
    /\ hist' = Other(hist)
    /\ UNCHANGED <<now, file, conn, tasks, applied, emailed, streak>>

\* ------------------------------------------- the tool, step by step ------
\* _allocate_to_goal_tool as the statements of a background task's thread,
\* each task with a database session of its own: the read of the goal with
\* the sum and the cap, the commit of saved, the commit of is_completed.
\* hist.ran collects the calls that returned.
ToolAmounts == {2000, 5000}
ToolCall(limit, amounts) ==
    /\ nreq < limit
    /\ \E i \in 1..Len(goals), amount \in amounts :
          tasks' = Put(tasks, [pc |-> "get_goal", id |-> nreq + 1, goal |-> i,
                               amount |-> amount, new_saved |-> 0])
    /\ nreq' = nreq + 1
    /\ UNCHANGED <<now, file, conn, goals, applied, emailed, hist, streak>>

GetGoal(t) ==
    /\ t.pc = "get_goal"
    /\ LET goal == goals[t.goal]
           sum == goal.saved + t.amount
       IN tasks' = Move(t, [t EXCEPT !.pc = "update_saved",
                                     !.new_saved = IF sum > goal.target THEN goal.target ELSE sum])
    /\ UNCHANGED <<now, file, conn, goals, nreq, applied, emailed, hist, streak>>

UpdateSaved(t) ==
    /\ t.pc = "update_saved"
    /\ goals' = [goals EXCEPT ![t.goal].saved = t.new_saved]
    /\ IF t.new_saved >= goals[t.goal].target
       THEN /\ tasks' = Move(t, [t EXCEPT !.pc = "update_completed"])
            /\ UNCHANGED hist
       ELSE /\ tasks' = Take(tasks, t)
            /\ hist' = [hist EXCEPT !.ran = hist.ran \cup {[id |-> t.id, goal |-> t.goal, amount |-> t.amount]}]
    /\ UNCHANGED <<now, file, conn, nreq, applied, emailed, streak>>

UpdateCompleted(t) ==
    /\ t.pc = "update_completed"
    /\ goals' = [goals EXCEPT ![t.goal].done = TRUE]
    /\ tasks' = Take(tasks, t)
    /\ hist' = [hist EXCEPT !.ran = hist.ran \cup {[id |-> t.id, goal |-> t.goal, amount |-> t.amount]}]
    /\ UNCHANGED <<now, file, conn, nreq, applied, emailed, streak>>

\* ------------------------------------------------- streak updates ------
\* midnight passes
NextDay(limit) ==
    /\ now < limit
    /\ now' = now + 1
    /\ UNCHANGED <<file, conn, goals, tasks, nreq, applied, emailed, hist, streak>>

\* an allocation that credited a goal reaches its streak update
SavingsStreakUpdate ==
    /\ streak' = update_savings_streak(streak, now)
    /\ UNCHANGED <<now, file, conn, goals, tasks, nreq, applied, emailed, hist>>

\* POST /transactions reaches its streak update
TransactionStreakUpdate ==
    /\ streak' = update_transaction_streak(streak, now)
    /\ UNCHANGED <<now, file, conn, goals, tasks, nreq, applied, emailed, hist>>

\* ---------------------------------------------------- specifications -----
\* Spec: the language model is unavailable, every plan and every target
\* comes from the formulas.
Next ==
    \/ Tick
    \/ AdminAddCredit(MaxTxns)
    \/ connect_payment_gateway(MaxRequests, {NoBody})
    \/ disconnect_payment_gateway
    \/ \E t \in InFlight : ProcessGoals(t, {NoRefinement})
    \/ \E t \in InFlight : AllocateNew(t, {NoAnswer})
    \/ \E t \in InFlight : MarkNew(t)
    \/ SyncBegin(MaxRequests)
    \/ \E t \in InFlight : SyncFinish(t)
    \/ \E t \in InFlight : AllocateSync(t, {NoAnswer})
    \/ \E t \in InFlight : MarkSync(t)

Spec == Init /\ [][Next]_vars

\* SpecLLM: the language model answers; the clock stands still and the
\* connection stays connected.
NextLLM ==
    \/ AdminAddCredit(MaxLLMTxns)
    \/ connect_payment_gateway(MaxLLMRequests, {NoBody})
    \/ \E t \in InFlight : ProcessGoals(t, RefineAnswers)
    \/ \E t \in InFlight : AllocateNew(t, LLMAnswers)
    \/ \E t \in InFlight : MarkNew(t)
    \/ SyncBegin(MaxLLMRequests)
    \/ \E t \in InFlight : SyncFinish(t)
    \/ \E t \in InFlight : AllocateSync(t, LLMAnswers)
    \/ \E t \in InFlight : MarkSync(t)

SpecLLM == Init /\ [][NextLLM]_vars

\* SpecClient: as Spec, the request bodies carry a connection_data and the
\* file also holds credits of amount 0.
AnyAmounts == Amounts \cup {0}
NextClient ==
    \/ Tick
    \/ AddCredit(MaxTxns, AnyAmounts)
    \/ connect_payment_gateway(MaxClientRequests, ClientBodies)
    \/ disconnect_payment_gateway
    \/ update_connection_details(ClientBodies)
    \/ \E t \in InFlight : ProcessGoals(t, {NoRefinement})
    \/ \E t \in InFlight : AllocateNew(t, {NoAnswer})
    \/ \E t \in InFlight : MarkNew(t)
    \/ SyncBegin(MaxClientRequests)
    \/ \E t \in InFlight : SyncFinish(t)
    \/ \E t \in InFlight : AllocateSync(t, {NoAnswer})
    \/ \E t \in InFlight : MarkSync(t)

SpecClient == Init /\ [][NextClient]_vars

\* SpecUser: as Spec without Disconnect; the user edits goals, and the Sync
\* task's reads and tool calls are two steps.
NextUser ==
    \/ Tick
    \/ AdminAddCredit(MaxUserTxns)
    \/ connect_payment_gateway(MaxUserRequests, {NoBody})
    \/ update_user_goal(UserUpdates)
    \/ \E t \in InFlight : ProcessGoals(t, {NoRefinement})
    \/ \E t \in InFlight : AllocateNew(t, {NoAnswer})
    \/ \E t \in InFlight : MarkNew(t)
    \/ SyncBegin(MaxUserRequests)
    \/ \E t \in InFlight : SyncFinish(t)
    \/ \E t \in InFlight : ReadGoalsSync(t)
    \/ \E t \in InFlight : ToolsSync(t, {NoAnswer})
    \/ \E t \in InFlight : MarkSync(t)

SpecUser == Init /\ [][NextUser]_vars

\* SpecSnapshot: as Spec without Disconnect; the snapshot file of the
\* connected gateway can go missing or become unreadable.
MaxSnapshotRequests == 3
NextSnapshot ==
    \/ Tick
    \/ AdminAddCredit(MaxTxns)
    \/ SetSnapshot(SnapshotStates)
    \/ connect_payment_gateway(MaxSnapshotRequests, {NoBody})
    \/ \E t \in InFlight : ProcessGoals(t, {NoRefinement})
    \/ \E t \in InFlight : AllocateNew(t, {NoAnswer})
    \/ \E t \in InFlight : MarkNew(t)
    \/ SyncBegin(MaxSnapshotRequests)
    \/ \E t \in InFlight : SyncFinish(t)
    \/ \E t \in InFlight : AllocateSync(t, {NoAnswer})
    \/ \E t \in InFlight : MarkSync(t)

SpecSnapshot == Init /\ [][NextSnapshot]_vars

\* SpecGoals: the language model is unavailable, the clock stands still and
\* the connection stays connected; the user adds goals of their own.
MaxGoals == 5
MaxGoalRequests == 2
NextGoals ==
    \/ AdminAddCredit(MaxTxns)
    \/ connect_payment_gateway(MaxGoalRequests, {NoBody})
    \/ create_user_goal(MaxGoals, UserGoals)
    \/ \E t \in InFlight : ProcessGoals(t, {NoRefinement})
    \/ \E t \in InFlight : AllocateNew(t, {NoAnswer})
    \/ \E t \in InFlight : MarkNew(t)
    \/ SyncBegin(MaxGoalRequests)
    \/ \E t \in InFlight : SyncFinish(t)
    \/ \E t \in InFlight : AllocateSync(t, {NoAnswer})
    \/ \E t \in InFlight : MarkSync(t)

SpecGoals == Init /\ [][NextGoals]_vars

\* SpecMonitor: as Spec without Disconnect and without Sync; the monitoring
\* endpoint is called between the steps of the connection's tasks.
MaxMonitorRequests == 3
NextMonitor ==
    \/ Tick
    \/ AdminAddCredit(MaxTxns)
    \/ connect_payment_gateway(MaxMonitorRequests, {NoBody})
    \/ autonomous_monitoring(MaxMonitorRequests)
    \/ \E t \in InFlight : ProcessGoals(t, {NoRefinement})
    \/ \E t \in InFlight : AllocateNew(t, {NoAnswer})
    \/ \E t \in InFlight : MarkNew(t)

SpecMonitor == Init /\ [][NextMonitor]_vars

\* SpecPlanner: as SpecMonitor with the goal planner in the monitor's place;
\* the user adds a one-time goal.
MaxPlannerTxns == 1
MaxPlannerGoals == 1
MaxPlannerRequests == 4
NextPlanner ==
    \/ Tick
    \/ AdminAddCredit(MaxPlannerTxns)
    \/ connect_payment_gateway(MaxPlannerRequests, {NoBody})
    \/ create_user_goal(MaxPlannerGoals, PlannerGoals)
    \/ GoalPlannerRun(MaxPlannerRequests)
    \/ \E t \in InFlight : ProcessGoals(t, {NoRefinement})
    \/ \E t \in InFlight : AllocateNew(t, {NoAnswer})
    \/ \E t \in InFlight : MarkNew(t)

SpecPlanner == Init /\ [][NextPlanner]_vars

\* SpecTool: the user's goals and the tool calls of background tasks that
\* run side by side, statement by statement.
MaxToolGoals == 2
MaxToolCalls == 3
NextTool ==
    \/ create_user_goal(MaxToolGoals, UserGoals)
    \/ ToolCall(MaxToolCalls, ToolAmounts)
    \/ \E t \in InFlight : GetGoal(t)
    \/ \E t \in InFlight : UpdateSaved(t)
    \/ \E t \in InFlight : UpdateCompleted(t)

SpecTool == Init /\ [][NextTool]_vars

\* SpecStreak: the streak service over a run of days, its two updates called
\* on any of them, any number of times a day.
MaxDay == 5
NextStreak ==
    \/ NextDay(MaxDay)
    \/ SavingsStreakUpdate
    \/ TransactionStreakUpdate

SpecStreak == Init /\ [][NextStreak]_vars

\* ------------------------------------------------------------ claims -----
Copies(P(_)) ==
    LET S == {u \in InFlight : P(u)}
        count[T \in SUBSET S] ==
            IF T = {} THEN 0
            ELSE LET u == CHOOSE x \in T : TRUE IN CopiesIn(u, tasks) + count[T \ {u}]
    IN count[S]

\* C1: no transaction id is consumed by more than one allocation batch that
\* credited a goal, whatever the interleaving of Create, Sync, Disconnect,
\* re-Create and the background tasks.
C1_ConsumedAtMostOnce == \A t \in TxnIds : applied[t] <= 1

\* C2: of two Sync tasks that were handed the same single new credit, at
\* most one applies it: never are two of them past their allocation step
\* with that credit as their batch.
C2_OneOfTwoSyncsApplies ==
    \A t \in TxnIds :
        Copies(LAMBDA u : u.pc = "mark_sync" /\ u.income = {t}) <= 1

\* C3: at most one background task of the user is in the middle of its
\* execution at any instant.
C3_OneTaskAtATime ==
    Copies(LAMBDA u : u.pc \in {"mark_new", "mark_sync"}) <= 1

\* C4: the allocation triggered by re-creating a disconnected connection
\* applies no credit whose id is already in allocated_transaction_ids.
C4_ReconnectAppliesNoOldCredit ==
    \A u \in InFlight :
        u.pc = "mark_new" /\ u.reconnect => u.income \cap Ids(u.copy.alloc) = {}

\* C5: an id that is in allocated_transaction_ids when a Sync starts is
\* absent from the NewIncomeSet that Sync hands to its task.
C5_StartIdsNotInNewIncome ==
    \A u \in InFlight : u.pc = "allocate_sync" => u.income \cap u.existing = {}
C5_Witness ==
    \E u \in InFlight :
        /\ u.pc = "allocate_sync"
        /\ \E x \in u.existing : x \in conn.txs /\ file[x].amount > 0 /\ file[x].ts > now

\* C6: there is no committed state in which a goal was credited with a
\* transaction whose id is not in allocated_transaction_ids.
C6_CreditedImpliesMarked ==
    \A t \in TxnIds : applied[t] > 0 => conn.alloc[t] > 0

\* C7: right after every committed allocation step (a step that changed a
\* balance), every goal has 0 <= saved <= target.
C7_SavedWithinTarget ==
    [][TotalSaved(goals') # TotalSaved(goals) =>
          \A i \in 1..Len(goals') : 0 <= goals'[i].saved /\ goals'[i].saved <= goals'[i].target]_vars

\* C8: one allocation step adds to the goals at most the total amount of
\* the credits it consumes, whatever plan the language model returns.
C8_AddedAtMostIncome ==
    [][\A u \in InFlight : \A v \in BagToSet(tasks') :
          /\ u.pc \in {"allocate_new", "allocate_sync"}
          /\ v.pc \in {"mark_new", "mark_sync"}
          /\ tasks' = Move(u, v)
          => TotalSaved(goals') - TotalSaved(goals) <= SumAmounts(v.income)]_vars

\* C9: allocated_transaction_ids only grows: an id in it stays in it over
\* every step.
C9_IdsOnlyGrow ==
    [][\A t \in TxnIds : conn.alloc[t] > 0 => conn'.alloc[t] > 0]_vars

\* C10: Disconnect flips the status and leaves the payload as it is, and the
\* re-Create that follows keeps every id of allocated_transaction_ids.
C10_DisconnectRecreateKeepIds ==
    [][/\ (conn.status = "connected" /\ conn'.status = "disconnected"
              => Payload(conn') = Payload(conn))
       /\ (conn.status = "disconnected" /\ conn'.status = "connected"
              => Ids(conn.alloc) \subseteq Ids(conn'.alloc))]_vars
C10_Witness ==
    \E u \in InFlight :
        u.pc = "process_goals" /\ u.reconnect /\ Ids(conn.alloc) # {}

\* C11: every id in allocated_transaction_ids was, at some earlier point,
\* part of the batch of an allocation that credited a goal.
C11_MarkedImpliesCredited ==
    \A t \in TxnIds : conn.alloc[t] > 0 => applied[t] > 0

\* C12: a Sync that follows completed Syncs with nothing in between finds no
\* new income: it enqueues no allocation, goals and allocated_transaction_ids
\* stay as they are and only last_sync advances.
C12_SecondSyncIsEmpty ==
    [][hist.synced = "second" /\ nreq' = nreq /\ tasks' # tasks
          => /\ tasks' = EmptyBag
             /\ goals' = goals
             /\ conn' = [conn EXCEPT !.last_sync = now]]_vars

\* C13: an allocation that runs right after an allocation of the same batch
\* has returned credits none of the batch's transactions again: goal balances
\* and allocated_transaction_ids are those of the single run.
C13_ReplayAppliesNothing ==
    [][\A t \in hist.ran : applied'[t] = applied[t]]_vars

\* C14: the "income allocated" e-mail of a batch is dispatched only when the
\* batch's ids are already stored in allocated_transaction_ids.
C14_EmailAfterIdsWritten ==
    [][\A t \in emailed' \ emailed : t \in Ids(conn'.alloc)]_vars

\* C17: no allocation, on any path, credits a goal for a transaction whose
\* timestamp equals the connection's created_at.
C17_CreatedAtInstantNeverApplied ==
    [][\A t \in TxnIds : applied'[t] > applied[t] => file[t].ts # conn.created_at]_vars

\* C20: every completed goal has saved >= target.
C20_CompletedMeansTargetReached ==
    \A i \in 1..Len(goals) : goals[i].done => goals[i].saved >= goals[i].target

\* C15: an allocation that finds every goal of the user completed changes
\* no goal balance, sends no e-mail and marks no id.  With no allocation past
\* its read of the goals, no step changes a saved amount, names a batch in an
\* e-mail, or takes a task to its tool calls or to the write of its ids.
C15_NoActiveGoalNoOp ==
    [][(/\ Len(goals) > 0
        /\ \A i \in 1..Len(goals) : goals[i].done
        /\ \A u \in InFlight : u.pc # "tools_sync")
          => /\ \A i \in 1..Len(goals) : goals'[i].saved = goals[i].saved
             /\ emailed' = emailed
             /\ applied' = applied
             /\ \A u \in BagToSet(tasks') :
                   u.pc \in {"tools_sync", "mark_sync", "mark_new"} => u \in BagToSet(tasks)]_vars
C15_Witness ==
    /\ hist.skipped # {}
    /\ Len(goals) > 0
    /\ \A i \in 1..Len(goals) : goals[i].done

\* C16: a credit that the Sync allocation left unmarked for want of an
\* active goal stays eligible: the next Sync's diff emits it.
C16_SkippedStaysEligible ==
    \A t \in hist.skipped :
        (/\ conn.alloc[t] = 0
         /\ conn.status = "connected"
         /\ t \in load_mock_data
         /\ \A u \in InFlight : t \notin u.income)
        => t \in NewIncomeSet(load_mock_data, Ids(conn.alloc), conn.last_sync,
                              conn.created_at, now)

\* C18: a credit of amount 0 is in no allocation batch and its id is not in
\* allocated_transaction_ids.
C18_ZeroCreditNeverMarked ==
    \A t \in TxnIds :
        file[t].present /\ file[t].amount = 0
        => /\ conn.alloc[t] = 0
           /\ \A u \in InFlight : t \notin u.income

\* C19: a step of an allocation task leaves saved and is_completed of a goal
\* as they are when the goal's target is 0 before and after the step.
C19_ZeroTargetUntouched ==
    [][tasks' # tasks
          => \A i \in 1..Len(goals) :
                goals[i].target = 0 /\ goals'[i].target = 0
                => goals'[i].saved = goals[i].saved /\ goals'[i].done = goals[i].done]_vars

\* C21: a step that raises a goal's saved to its target leaves the goal
\* completed.
C21_ReachedTargetIsCompleted ==
    [][\A i \in 1..Len(goals) :
          goals'[i].saved > goals[i].saved /\ goals'[i].saved >= goals'[i].target
          => goals'[i].done]_vars
C21_Witness ==
    \E i \in 1..Len(goals) :
        goals[i].done /\ goals[i].saved = goals[i].target /\ goals[i].saved > 0

\* C22: the reaction to a completion follows from the allocation itself: when
\* the background tasks have run to their end, no recurring goal that an
\* allocation completed is still completed (its target has been raised by a
\* quarter and the goal re-opened).
C22_CompletedRecurringReopened ==
    tasks = EmptyBag
    => \A i \in 1..Len(goals) : IsRecurring(goals[i]) => ~goals[i].done

C24_InvalidSnapshotKeepsPayload ==
    [][\A t \in InFlight :
          /\ t.pc = "sync" /\ CopiesIn(t, tasks') < CopiesIn(t, tasks)
          /\ hist.snapshot = "invalid"
          => /\ conn'.txs = conn.txs
             /\ conn'.alloc = conn.alloc
             /\ conn'.last_sync = now]_vars

\* C25: a POST /connections for a name that is connected already changes
\* neither the row (status, payload, last_sync, ids) nor the goals, and
\* enqueues no task.
C25_ConflictChangesNothing ==
    [][/\ nreq' = nreq + 1
       /\ conn.status = "connected"
       /\ \A u \in BagToSet(tasks') : u.pc = "sync" => CopiesIn(u, tasks') = CopiesIn(u, tasks)
       => /\ conn' = conn
          /\ tasks' = tasks
          /\ goals' = goals]_vars
C25_Witness ==
    /\ hist.synced = "conflict"
    /\ conn.status = "connected"
    /\ conn.last_sync < now
    /\ Ids(conn.alloc) # {}
    /\ tasks # EmptyBag

\* C26: whatever the language model answers, the plan an allocation task is
\* about to apply directs 40 percent of the income to goals: the emergency
\* percent and the goals' percents add up to total_allocation_percent.
C26_PercentsAddUpToForty ==
    \A t \in InFlight :
        t.pc \in {"allocate_new", "allocate_sync"} /\ Len(ActiveGoals(goals)) > 0
        => \A answer \in LLMAnswers :
              LET plan == determine_allocation_percentages(SumAmounts(t.income), goals, answer)
              IN plan.emergency_percent + SumPercents(plan.entries)
                    = plan.total_allocation_percent

\* C27: with the language model unavailable, an allocation task over the
\* batch of credits it has selected adds, capped at the room below the target,
\* 10 percent of the batch to one active emergency goal and 15 percent to each
\* of the first two active regular goals, leaves every other goal's saved as
\* it is, and goes on to mark the ids of the batch whenever it has credited a
\* goal.
C27_FallbackTenFifteenFifteen ==
    [][\A t \in InFlight :
          /\ t.pc \in {"allocate_new", "allocate_sync"}
          /\ CopiesIn(t, tasks') < CopiesIn(t, tasks)
          /\ Len(goals) > 0
          => LET batch == IF t.pc = "allocate_new"
                          THEN {x \in conn.txs : file[x].amount > 0 /\ file[x].ts >= conn.created_at}
                          ELSE t.income \ Ids(conn.alloc)
                 income == SumAmounts(batch)
                 active == SelectSeq(Newest(Len(goals)), LAMBDA i : ~goals[i].done)
                 eg == SelectSeq(active, LAMBDA i : goals[i].type = "emergency")
                 rg == SelectSeq(active, LAMBDA i : goals[i].type # "emergency")
                 room(i) == IF goals'[i].target > goals[i].saved
                            THEN goals'[i].target - goals[i].saved ELSE 0
                 share(i) == IF eg # <<>> /\ i = eg[1]
                             THEN Min(room(i), (income * 10) \div 100)
                             ELSE IF \E k \in 1..Min(2, Len(rg)) : rg[k] = i
                             THEN Min(room(i), (income * 15) \div 100)
                             ELSE 0
             IN /\ Len(goals') = Len(goals)
                /\ \A i \in 1..Len(goals) : goals'[i].saved = goals[i].saved + share(i)
                /\ (\E i \in 1..Len(goals) : share(i) > 0)
                   => \E u \in BagToSet(tasks') :
                         u.pc \in {"mark_new", "mark_sync"} /\ u.income = batch]_vars
C27_Witness ==
    /\ Len(goals) = 5
    /\ \E u \in InFlight : u.pc \in {"mark_new", "mark_sync"}
    /\ \E i, j, k \in 1..Len(goals) :
          /\ i < j /\ goals[i].type # "emergency" /\ goals[j].type # "emergency"
          /\ goals[k].type # "emergency" /\ k \notin {i, j}
          /\ goals[i].saved > 0 /\ goals[j].saved > 0
          /\ goals[k].saved = 0 /\ ~goals[k].done /\ goals[k].target > 0
    /\ \E e \in 1..Len(goals) : goals[e].type = "emergency" /\ goals[e].saved > 0

\* C28: no allocation changes the saved of an emergency goal while an older
\* emergency goal is active: the emergency share goes to the oldest one only.
C28_OnlyOldestEmergencyCredited ==
    [][\A i \in 1..Len(goals) :
          /\ IsEmergency(goals[i])
          /\ \E j \in 1..(i - 1) : IsEmergency(goals[j]) /\ ~goals[j].done
          => goals'[i].saved = goals[i].saved]_vars

\* C29: the allocation task of a POST /connections starts only when the
\* goal-processing task of the same request has returned: whenever it is
\* about to run, the user has an emergency goal and at least three goals.
C29_GoalsProcessedBeforeAllocation ==
    \A u \in InFlight :
        u.pc = "allocate_new"
        => /\ Len(goals) >= 3
           /\ \E i \in 1..Len(goals) : goals[i].type = "emergency"
C29_Witness ==
    /\ \E u \in InFlight : u.pc = "allocate_new" /\ u.reconnect
    /\ Len(goals) = 3
    /\ \E i \in 1..Len(goals) : goals[i].saved > 0

\* C30: in the stored streak row neither current streak exceeds its longest
\* streak, whatever the days of the updates.
C30_CurrentAtMostLongest ==
    /\ streak.savings_streak <= streak.longest_savings_streak
    /\ streak.transaction_streak <= streak.longest_transaction_streak
C30_Witness ==
    /\ streak.savings_streak = 1
    /\ streak.longest_savings_streak = 2
    /\ streak.last_savings_date = now
    /\ streak.transaction_streak = 3
    /\ streak.longest_transaction_streak = 3
    /\ streak.last_transaction_date = now

\* C31: once a step has committed, no goal holds more than its target.
C31_SavedAtMostTarget ==
    \A i \in 1..Len(goals) : goals[i].saved <= goals[i].target

\* C32: the resize of a Sync's allocation task sets an active goal with a
\* non-zero target to its recommended target exactly when the two differ by
\* more than a fifth of the recommendation, whichever is the larger, and
\* leaves the target alone otherwise.
C32_ResizeBeyondAFifth ==
    [][\A t \in InFlight :
          /\ t.pc = "allocate_sync"
          /\ CopiesIn(t, tasks') < CopiesIn(t, tasks)
          /\ t.income \ Ids(conn.alloc) # {}
          /\ Len(goals) > 0
          => LET total == SumAmounts(t.income \ Ids(conn.alloc))
                 num == SyncIncomeNum(total)
                 den == SyncIncomeDen
                 rg == RegularGoals(goals)
                 resized == {i \in 1..Len(goals) :
                                /\ ~goals[i].done /\ goals[i].target # 0
                                /\ \/ IsEmergency(goals[i])
                                   \/ \E k \in 1..Min(2, Len(rg)) : rg[k] = i}
                 recommended(i) ==
                     IF IsEmergency(goals[i]) THEN Max(recommended_buffer, EmergencyTarget(num, den))
                     ELSE IF rg[1] = i THEN Savings1Target(num, den)
                     ELSE Savings2Target(num, den)
             IN \A i \in resized :
                   goals'[i].target =
                      IF 5 * Abs(goals[i].target - recommended(i)) > recommended(i)
                      THEN recommended(i) ELSE goals[i].target]_vars

\* C33: the user never has two goals named Emergency Fund, two named Savings
\* Goal 1 or two named Savings Goal 2.
C33_OneBootstrapGoalOfEachName ==
    \A n \in {"Emergency Fund", "Savings Goal 1", "Savings Goal 2"} :
        Cardinality({i \in 1..Len(goals) : goals[i].name = n}) <= 1

\* C34: in the list of goals the allocation task of a new connection is about
\* to hand to the language model (there is new income and an active goal), of
\* two goals with the same urgency rank and the same number of days to the
\* deadline the one with the lower progress stands first.
C34_LowerProgressFirst ==
    \A t \in InFlight :
        /\ t.pc = "allocate_new"
        /\ conn.status = "connected"
        /\ NewConnectionIncome(conn) # {}
        /\ ActiveGoals(goals) # <<>>
        => LET summary == goals_summary(goals) IN
           \A p, q \in 1..Len(summary) :
              LET a == goals[summary[p]]
                  b == goals[summary[q]]
              IN /\ p < q
                 /\ UrgencyRank(a) = UrgencyRank(b)
                 /\ DaysUntilDeadline(a) = DaysUntilDeadline(b)
                 => ProgressNum(a) * ProgressDen(b) <= ProgressNum(b) * ProgressDen(a)

\* C35: when the tool calls of tasks that ran side by side have all returned,
\* every goal holds what it was created with plus the amounts of all the calls
\* on it, or its target if that is less: no call's amount is lost.
C35_NoLostIncrement ==
    tasks = EmptyBag
    => \A i \in 1..Len(goals) :
          LET created == CHOOSE u \in UserGoals : u.name = goals[i].name
              sum[calls \in SUBSET hist.ran] ==
                  IF calls = {} THEN 0
                  ELSE LET c == CHOOSE c \in calls : TRUE IN c.amount + sum[calls \ {c}]
              added == sum[{c \in hist.ran : c.goal = i}]
          IN goals[i].saved = Min(goals[i].target, created.saved + added)

\* C36: a Sync whose snapshot is read emits every positive credit of the
\* snapshot that is not recorded as allocated and is dated later than the
\* connection's creation and later than the time of the last Sync before it.
C36_CreditsSinceLastSyncEmitted ==
    [][\A t \in InFlight :
          /\ t.pc = "sync" /\ CopiesIn(t, tasks') < CopiesIn(t, tasks)
          /\ hist.snapshot = "present"
          => \A x \in load_mock_data :
                /\ file[x].amount > 0
                /\ x \notin t.existing \cup Ids(conn.alloc)
                /\ file[x].ts > conn.created_at
                /\ file[x].ts > hist.called
                => \E u \in BagToSet(tasks') : u.pc = "allocate_sync" /\ x \in u.income]_vars

\* C37: the write-back at the end of a Sync's allocation task leaves the
\* transactions of the connection's payload as the row holds them.
C37_WriteBackKeepsTransactions ==
    [][\A t \in InFlight :
          t.pc = "mark_sync" /\ CopiesIn(t, tasks') < CopiesIn(t, tasks)
          => conn'.txs = conn.txs]_vars

\* C38: a call of the monitor that comes after another call of the monitor,
\* nothing but the clock having moved in between, that sees the recent income
\* the earlier call saw and finds money allocated already, raises no goal's
\* saved.
C38_MonitorAllocatesOnce ==
    [][/\ nreq' = nreq + 1
       /\ hist'.synced = "monitored"
       /\ hist.synced = "monitored"
       /\ RecentIncome = hist.ran
       /\ \E i \in 1..Len(goals) : goals[i].saved > 0
       => \A i \in 1..Len(goals) : goals'[i].saved = goals[i].saved]_vars

\* C39: as long as no successor goal is itself completed, there are no more
\* successor goals than completed one-time goals.
C39_OneSuccessorPerCompletedGoal ==
    (\A i \in 1..Len(goals) : goals[i].name = "Next Phone Upgrade" => ~goals[i].done)
    => Cardinality({i \in 1..Len(goals) : goals[i].name = "Next Phone Upgrade"})
          <= Cardinality({i \in 1..Len(goals) : goals[i].name = "Buy Phone" /\ goals[i].done})

\* C40: when a Sync's allocation task has made its tool calls, the amounts it
\* reports (the "allocated" of its actions, summed to total_allocated) add up
\* to the increase of the goals' saved, whatever plan the language model gave.
C40_ReportedEqualsCredited ==
    [][\A t \in InFlight :
          t.pc = "allocate_sync" /\ CopiesIn(t, tasks') < CopiesIn(t, tasks)
          => LET filtered == t.income \ Ids(conn.alloc)
                 total_new == SumAmounts(filtered)
                 ready == ResizeGoals(BootstrapGoals(goals, total_new), total_new)
             IN \A answer \in LLMAnswers :
                   LET res == SyncPlan(ready, ready, total_new, answer)
                       reported[k \in 0..Len(res.acts)] ==
                           IF k = 0 THEN 0 ELSE reported[k - 1] + res.acts[k]
                   IN /\ filtered # {}
                      /\ ActiveGoals(ready) # <<>>
                      /\ res.acts # NoActions
                      /\ res.goals = goals'
                      => reported[Len(res.acts)] = TotalSaved(goals') - TotalSaved(ready)]_vars
====
